---- MODULE Spec2Model ----
(***************************************************************************)
(* metriki-tokio: the tokio-metrics MetricsSet adapters                    *)
(* (TokioTaskMetricsSet, TokioRuntimeMetricsSet), their derive_builder     *)
(* builders and the get_all() operation, modelled from                     *)
(* metriki-tokio/src/lib.rs.                                               *)
(*                                                                         *)
(* Strings are sequences of one-character strings.  Durations are whole    *)
(* microseconds.  Counters and millisecond values stay far below 2^53, the *)
(* range in which `as f64` is exact.                                       *)
(***************************************************************************)
EXTENDS Integers, Sequences, FiniteSets, TLC

\* ---------------------------------------------------------------- bounds
NumThreads == 2
MaxAdapters == 2
MaxCursors == 2
SrcLen == 3
NumDurations == 2

Threads == 1..NumThreads

VARIABLES
    family,      \* "task": TokioTaskMetricsSet, "rt": TokioRuntimeMetricsSet
    endless,     \* TRUE: the monitor's intervals() never ends; FALSE: a stub of SrcLen snapshots
    source,      \* the snapshots every intervals() iterator yields, in order
    builder,     \* the *Builder struct: Option<name>, Option<monitor>
    cursors,     \* the Arc<Mutex<dyn Iterator>> objects allocated so far
    adapters,    \* the metrics sets built so far
    buildResult, \* what the last build() returned
    pc,          \* per thread: position inside get_all
    this,        \* per thread: the adapter get_all was called on (&self)
    metrics,     \* per thread: what next() returned
    outcome,     \* per thread: how its last get_all ended
    log,         \* history, per cursor: the indices committed, in lock order
    ord,         \* history, per thread: ordinal of its pull on the cursor
    result       \* per thread: the map its last get_all returned, with its history tags

vars == <<family, endless, source, builder, cursors, adapters, buildResult,
          pc, this, metrics, outcome, log, ord, result>>

\* ------------------------------------------------------------- Option<T>
None == [some |-> FALSE]

Some(v) == [some |-> TRUE, val |-> v]

\* ------------------------------------------------------- metric key names
K_first_poll_count ==
    <<"f", "i", "r", "s", "t", "_", "p", "o", "l", "l", "_", "c", "o", "u", "n", "t">>
K_instrumented_count ==
    <<"i", "n", "s", "t", "r", "u", "m", "e", "n", "t", "e", "d", "_", "c", "o", "u", "n", "t">>
K_dropped_count ==
    <<"d", "r", "o", "p", "p", "e", "d", "_", "c", "o", "u", "n", "t">>
K_total_poll_count ==
    <<"t", "o", "t", "a", "l", "_", "p", "o", "l", "l", "_", "c", "o", "u", "n", "t">>
K_total_idled_count ==
    <<"t", "o", "t", "a", "l", "_", "i", "d", "l", "e", "d", "_", "c", "o", "u", "n", "t">>
K_total_scheduled_count ==
    <<"t", "o", "t", "a", "l", "_", "s", "c", "h", "e", "d", "u", "l", "e", "d", "_", "c", "o", "u", "n", "t">>
K_total_slow_poll_count ==
    <<"t", "o", "t", "a", "l", "_", "s", "l", "o", "w", "_", "p", "o", "l", "l", "_", "c", "o", "u", "n", "t">>
K_total_fast_poll_count ==
    <<"t", "o", "t", "a", "l", "_", "f", "a", "s", "t", "_", "p", "o", "l", "l", "_", "c", "o", "u", "n", "t">>
K_mean_poll_duration ==
    <<"m", "e", "a", "n", "_", "p", "o", "l", "l", "_", "d", "u", "r", "a", "t", "i", "o", "n">>
K_mean_first_poll_delay ==
    <<"m", "e", "a", "n", "_", "f", "i", "r", "s", "t", "_", "p", "o", "l", "l", "_", "d", "e", "l", "a", "y">>
K_mean_scheduled_duration ==
    <<"m", "e", "a", "n", "_", "s", "c", "h", "e", "d", "u", "l", "e", "d", "_", "d", "u", "r", "a", "t", "i", "o", "n">>
K_total_polls_count ==
    <<"t", "o", "t", "a", "l", "_", "p", "o", "l", "l", "s", "_", "c", "o", "u", "n", "t">>
K_total_steal_count ==
    <<"t", "o", "t", "a", "l", "_", "s", "t", "e", "a", "l", "_", "c", "o", "u", "n", "t">>
K_total_park_count ==
    <<"t", "o", "t", "a", "l", "_", "p", "a", "r", "k", "_", "c", "o", "u", "n", "t">>
K_num_remote_schedules ==
    <<"n", "u", "m", "_", "r", "e", "m", "o", "t", "e", "_", "s", "c", "h", "e", "d", "u", "l", "e", "s">>
K_total_local_schedule_count ==
    <<"t", "o", "t", "a", "l", "_", "l", "o", "c", "a", "l", "_", "s", "c", "h", "e", "d", "u", "l", "e", "_", "c", "o", "u", "n", "t">>
K_total_overflow_count ==
    <<"t", "o", "t", "a", "l", "_", "o", "v", "e", "r", "f", "l", "o", "w", "_", "c", "o", "u", "n", "t">>
K_total_noop_count ==
    <<"t", "o", "t", "a", "l", "_", "n", "o", "o", "p", "_", "c", "o", "u", "n", "t">>
K_total_busy_duration ==
    <<"t", "o", "t", "a", "l", "_", "b", "u", "s", "y", "_", "d", "u", "r", "a", "t", "i", "o", "n">>
K_busy_ratio ==
    <<"b", "u", "s", "y", "_", "r", "a", "t", "i", "o">>

\* --------------------------------------------------------------- snapshots
\* A TaskMetrics value as get_all reads it: the eight counter fields and the
\* results of the three mean_*() accessors, in microseconds.
TaskMetricsOf(c, d1, d2) ==
    [first_poll_count |-> c + 1, instrumented_count |-> c + 2,
     dropped_count |-> c + 3, total_poll_count |-> c + 4,
     total_idled_count |-> c + 5, total_scheduled_count |-> c + 6,
     total_slow_poll_count |-> c + 7, total_fast_poll_count |-> c + 8,
     mean_poll_duration |-> d1, mean_first_poll_delay |-> d2,
     mean_scheduled_duration |-> d1 + d2]

\* A RuntimeMetrics value as get_all reads it: seven counters, the busy
\* duration in microseconds and the result of busy_ratio(), in thousandths.
RuntimeMetricsOf(c, d, r) ==
    [total_polls_count |-> c + 1, total_steal_count |-> c + 2,
     total_park_count |-> c + 3, num_remote_schedules |-> c + 4,
     total_local_schedule_count |-> c + 5, total_overflow_count |-> c + 6,
     total_noop_count |-> c + 7, total_busy_duration |-> d, busy_ratio |-> r]

Micros == UNION {{1000 * k, 1000 * k + 500, 1000 * k + 999} : k \in 0..(NumDurations - 1)}

Counts == {0, 10}

Ratios == {0, 250, 1000}

Names == {<<"a">>, <<"a", ".", "b">>}

TaskSnapshots == {TaskMetricsOf(c, d1, d2) : c \in Counts, d1 \in Micros, d2 \in Micros}

RuntimeSnapshots == {RuntimeMetricsOf(c, d, r) : c \in Counts, d \in Micros, r \in Ratios}

\* Three stub snapshots per family; the first two differ only below one
\* millisecond.
TaskPool == <<TaskMetricsOf(0, 1500, 0), TaskMetricsOf(0, 1999, 0), TaskMetricsOf(10, 2500, 500)>>

RuntimePool == <<RuntimeMetricsOf(0, 1500, 250), RuntimeMetricsOf(0, 1999, 250), RuntimeMetricsOf(10, 2500, 1000)>>

Pool(f) == IF f = "task" THEN TaskPool ELSE RuntimePool

\* The stub monitor's snapshots: the pool, repeated up to SrcLen.
StubSource(f) == [i \in 1..SrcLen |-> Pool(f)[((i - 1) % Len(Pool(f))) + 1]]

Snapshots(f) == IF f = "task" THEN TaskSnapshots ELSE RuntimeSnapshots

\* -------------------------------------------------------------- projection
\* Variant of as_millis that rounds to the nearest millisecond.
as_millis_rounded(d) == (d + 500) \div 1000

\* Duration::as_millis: whole milliseconds, the remainder dropped.
as_millis(d) == d \div 1000

\* `as f64`: exact on every value below 2^53.
AsF64(n) == n

\* Variant of Format that leaves the dot out.
Format_nodot(name, field) == name \o field

\* format!("{}.<field>", self.name)
Format(name, field) == name \o <<".">> \o field

\* HashMap::new()
HashMapNew == [k \in {} |-> 0]

\* HashMap::insert: a later insert under an equal key replaces the value.
Insert(m, k, v) == [x \in (DOMAIN m) \cup {k} |-> IF x = k THEN v ELSE m[x]]

\* Variant of TaskGetAll whose total_fast_poll_count insert reuses the key
\* of total_slow_poll_count.
TaskGetAll_dupkey(name, m) ==
    LET r1 == Insert(HashMapNew, Format(name, K_first_poll_count), AsF64(m.first_poll_count))
        r2 == Insert(r1, Format(name, K_instrumented_count), AsF64(m.instrumented_count))
        r3 == Insert(r2, Format(name, K_dropped_count), AsF64(m.dropped_count))
        r4 == Insert(r3, Format(name, K_total_poll_count), AsF64(m.total_poll_count))
        r5 == Insert(r4, Format(name, K_total_idled_count), AsF64(m.total_idled_count))
        r6 == Insert(r5, Format(name, K_total_scheduled_count), AsF64(m.total_scheduled_count))
        r7 == Insert(r6, Format(name, K_total_slow_poll_count), AsF64(m.total_slow_poll_count))
        r8 == Insert(r7, Format(name, K_total_slow_poll_count), AsF64(m.total_fast_poll_count))
        r9 == Insert(r8, Format(name, K_mean_poll_duration), AsF64(as_millis(m.mean_poll_duration)))
        r10 == Insert(r9, Format(name, K_mean_first_poll_delay), AsF64(as_millis(m.mean_first_poll_delay)))
        r11 == Insert(r10, Format(name, K_mean_scheduled_duration), AsF64(as_millis(m.mean_scheduled_duration)))
    IN  r11

\* The body of TokioTaskMetricsSet::get_all after the snapshot is taken.
TaskGetAll(name, m) ==
    LET r1 == Insert(HashMapNew, Format(name, K_first_poll_count), AsF64(m.first_poll_count))
        r2 == Insert(r1, Format(name, K_instrumented_count), AsF64(m.instrumented_count))
        r3 == Insert(r2, Format(name, K_dropped_count), AsF64(m.dropped_count))
        r4 == Insert(r3, Format(name, K_total_poll_count), AsF64(m.total_poll_count))
        r5 == Insert(r4, Format(name, K_total_idled_count), AsF64(m.total_idled_count))
        r6 == Insert(r5, Format(name, K_total_scheduled_count), AsF64(m.total_scheduled_count))
        r7 == Insert(r6, Format(name, K_total_slow_poll_count), AsF64(m.total_slow_poll_count))
        r8 == Insert(r7, Format(name, K_total_fast_poll_count), AsF64(m.total_fast_poll_count))
        r9 == Insert(r8, Format(name, K_mean_poll_duration), AsF64(as_millis(m.mean_poll_duration)))
        r10 == Insert(r9, Format(name, K_mean_first_poll_delay), AsF64(as_millis(m.mean_first_poll_delay)))
        r11 == Insert(r10, Format(name, K_mean_scheduled_duration), AsF64(as_millis(m.mean_scheduled_duration)))
    IN  r11

\* The body of TokioRuntimeMetricsSet::get_all after the snapshot is taken.
RuntimeGetAll(name, m) ==
    LET r1 == Insert(HashMapNew, Format(name, K_total_polls_count), AsF64(m.total_polls_count))
        r2 == Insert(r1, Format(name, K_total_steal_count), AsF64(m.total_steal_count))
        r3 == Insert(r2, Format(name, K_total_park_count), AsF64(m.total_park_count))
        r4 == Insert(r3, Format(name, K_num_remote_schedules), AsF64(m.num_remote_schedules))
        r5 == Insert(r4, Format(name, K_total_local_schedule_count), AsF64(m.total_local_schedule_count))
        r6 == Insert(r5, Format(name, K_total_overflow_count), AsF64(m.total_overflow_count))
        r7 == Insert(r6, Format(name, K_total_noop_count), AsF64(m.total_noop_count))
        r8 == Insert(r7, Format(name, K_total_busy_duration), AsF64(as_millis(m.total_busy_duration)))
        r9 == Insert(r8, Format(name, K_busy_ratio), m.busy_ratio)
    IN  r9

Project(f, name, m) == IF f = "task" THEN TaskGetAll(name, m) ELSE RuntimeGetAll(name, m)

\* ------------------------------------------------------------ the iterator
\* Variant of IntervalsNext that yields the item and forgets to advance.
IntervalsNext_stuck(pos) ==
    IF pos < Len(source) THEN [item |-> Some(source[pos + 1]), pos |-> pos]
    ELSE [item |-> None, pos |-> pos]

\* Variant of IntervalsNext that yields its last snapshot again at the end.
IntervalsNext_stale(pos) ==
    IF pos < Len(source) THEN [item |-> Some(source[pos + 1]), pos |-> pos + 1]
    ELSE [item |-> Some(source[Len(source)]), pos |-> pos]

\* Iterator::next on the intervals() iterator at position pos: the item it
\* yields and the position it leaves.  A stub ends after its last snapshot;
\* a live monitor never ends (its snapshots are modelled as repeating).
IntervalsNext(pos) ==
    IF pos < Len(source) THEN [item |-> Some(source[pos + 1]), pos |-> pos + 1]
    ELSE IF endless THEN [item |-> Some(source[1]), pos |-> 1]
    ELSE [item |-> None, pos |-> pos]

\* Arc::new(Mutex::new(monitor.intervals()))
NewCursor == [pos |-> 0, locked |-> FALSE, poisoned |-> FALSE]

\* Variant of MutexFree: no mutual exclusion.
MutexFree_always(cur) == TRUE

\* Mutex::lock can take the mutex only while no guard is alive.
MutexFree(cur) == ~cur.locked

\* Variant of Poisoned: the poison flag is ignored.
Poisoned_never(cur) == FALSE

\* Mutex::lock returns Err(PoisonError) on a poisoned mutex.
Poisoned(cur) == cur.poisoned

\* Variant of GuardDrop: the guard outlives the statement unless the thread
\* panics.
GuardDrop_kept(cur, panicking) ==
    [cur EXCEPT !.locked = ~panicking, !.poisoned = cur.poisoned \/ panicking]

\* MutexGuard::drop at the end of the `let metrics` statement: releases the
\* mutex and poisons it when the thread is unwinding from a panic.
GuardDrop(cur, panicking) ==
    [cur EXCEPT !.locked = FALSE, !.poisoned = cur.poisoned \/ panicking]

\* ------------------------------------------------------------- the builder
NewBuilder == [name |-> None, monitor |-> None]

Ok(v) == [ok |-> TRUE, val |-> v]

Err(e, f) == [ok |-> FALSE, err |-> e, field |-> f]

\* Variant of BuilderBuild that defaults an unset name to the empty string.
BuilderBuild_defaultName(b) ==
    IF ~b.monitor.some THEN Err("UninitializedField", "monitor")
    ELSE Ok([name |-> IF b.name.some THEN b.name.val ELSE <<>>, monitor |-> b.monitor.val])

\* The derived build(&self): every field is cloned out of the builder, the
\* first unset field gives UninitializedField.
BuilderBuild(b) ==
    IF ~b.name.some THEN Err("UninitializedField", "name")
    ELSE IF ~b.monitor.some THEN Err("UninitializedField", "monitor")
    ELSE Ok([name |-> b.name.val, monitor |-> b.monitor.val])

\* TokioTaskMetricsSet::name / TokioRuntimeMetricsSet::name
name(a) == adapters[a].name

\* The cursor behind self.monitor of the adapter thread t is running on.
CursorOf(t) == adapters[this[t]].monitor

\* The threads that call get_all: the domain of the per-thread variables.
Callers == DOMAIN pc

\* Every per-thread variable before the thread's first call.
ThreadsIdle(T) ==
    /\ pc = [t \in T |-> "idle"]
    /\ this = [t \in T |-> 0]
    /\ metrics = [t \in T |-> None]
    /\ outcome = [t \in T |-> "none"]
    /\ ord = [t \in T |-> 0]
    /\ result = [t \in T |-> None]

Families == {"task", "rt"}

\* ------------------------------------------------------------------- Init
\* Nothing built yet; the monitors are stubs; one registry thread collects.
Init ==
    /\ family \in Families
    /\ endless = FALSE
    /\ source = StubSource(family)
    /\ builder = NewBuilder
    /\ cursors = <<>>
    /\ adapters = <<>>
    /\ buildResult = None
    /\ log = <<>>
    /\ ThreadsIdle({1})

\* ------------------------------------------------------- builder actions
\* The derived setter name(value): self.name = Some(value.into()).
SetName(n) ==
    /\ builder' = [builder EXCEPT !.name = Some(n)]
    /\ UNCHANGED <<family, endless, source, cursors, adapters, buildResult,
                   pc, this, metrics, outcome, log, ord, result>>

\* The custom setter monitor(&monitor): a new mutex around a new iterator.
SetMonitor ==
    /\ Len(cursors) < MaxCursors
    /\ cursors' = Append(cursors, NewCursor)
    /\ builder' = [builder EXCEPT !.monitor = Some(Len(cursors) + 1)]
    /\ log' = Append(log, <<>>)
    /\ UNCHANGED <<family, endless, source, adapters, buildResult,
                   pc, this, metrics, outcome, ord, result>>

\* build(): the builder stays as it was and can be used again.
Build ==
    LET r == BuilderBuild(builder) IN
    /\ r.ok => Len(adapters) < MaxAdapters
    /\ buildResult' = Some(r)
    /\ adapters' = IF r.ok THEN Append(adapters, r.val) ELSE adapters
    /\ UNCHANGED <<family, endless, source, builder, cursors,
                   pc, this, metrics, outcome, log, ord, result>>

\* ------------------------------------------------------- get_all, by step
\* A thread enters get_all on adapter a.
Call(t, a) ==
    /\ pc[t] = "idle"
    /\ a \in 1..Len(adapters)
    /\ pc' = [pc EXCEPT ![t] = "lock"]
    /\ this' = [this EXCEPT ![t] = a]
    /\ outcome' = [outcome EXCEPT ![t] = "running"]
    /\ UNCHANGED <<family, endless, source, builder, cursors, adapters,
                   buildResult, metrics, log, ord, result>>

\* self.monitor.lock().unwrap() on a sound mutex: the guard is taken.
LockOk(t) ==
    /\ pc[t] = "lock"
    /\ MutexFree(cursors[CursorOf(t)])
    /\ ~Poisoned(cursors[CursorOf(t)])
    /\ cursors' = [cursors EXCEPT ![CursorOf(t)].locked = TRUE]
    /\ pc' = [pc EXCEPT ![t] = "next"]
    /\ UNCHANGED <<family, endless, source, builder, adapters, buildResult,
                   this, metrics, outcome, log, ord, result>>

\* self.monitor.lock().unwrap() on a poisoned mutex: lock() returns
\* Err(PoisonError), unwrap panics, the guard inside the error is dropped.
LockPoisoned(t) ==
    /\ pc[t] = "lock"
    /\ MutexFree(cursors[CursorOf(t)])
    /\ Poisoned(cursors[CursorOf(t)])
    /\ pc' = [pc EXCEPT ![t] = "idle"]
    /\ outcome' = [outcome EXCEPT ![t] = "PoisonError"]
    /\ UNCHANGED <<family, endless, source, builder, cursors, adapters,
                   buildResult, this, metrics, log, ord, result>>

\* .next(), first half: the iterator works out its item from its position.
NextRead(t) ==
    /\ pc[t] = "next"
    /\ metrics' = [metrics EXCEPT ![t] = IntervalsNext(cursors[CursorOf(t)].pos)]
    /\ pc' = [pc EXCEPT ![t] = "unwrap"]
    /\ UNCHANGED <<family, endless, source, builder, cursors, adapters,
                   buildResult, this, outcome, log, ord, result>>

\* .next() stores its new position and returns Some; unwrap yields the
\* snapshot; the statement ends and the guard is dropped.
NextSome(t) ==
    LET c == CursorOf(t) IN
    /\ pc[t] = "unwrap"
    /\ metrics[t].item.some
    /\ cursors' = [cursors EXCEPT ![c] = GuardDrop([@ EXCEPT !.pos = metrics[t].pos], FALSE)]
    /\ metrics' = [metrics EXCEPT ![t] = metrics[t].item]
    /\ pc' = [pc EXCEPT ![t] = "project"]
    /\ IF endless
       THEN UNCHANGED <<log, ord>>
       ELSE /\ log' = [log EXCEPT ![c] = Append(@, metrics[t].pos)]
            /\ ord' = [ord EXCEPT ![t] = Len(log[c]) + 1]
    /\ UNCHANGED <<family, endless, source, builder, adapters, buildResult,
                   this, outcome, result>>

\* .next() returns None; unwrap panics while the guard is alive, so the
\* unwinding drop of the guard poisons the mutex.
NextNone(t) ==
    LET c == CursorOf(t) IN
    /\ pc[t] = "unwrap"
    /\ ~metrics[t].item.some
    /\ cursors' = [cursors EXCEPT ![c] = GuardDrop([@ EXCEPT !.pos = metrics[t].pos], TRUE)]
    /\ metrics' = [metrics EXCEPT ![t] = None]
    /\ pc' = [pc EXCEPT ![t] = "idle"]
    /\ outcome' = [outcome EXCEPT ![t] = "NoneUnwrap"]
    /\ UNCHANGED <<family, endless, source, builder, adapters, buildResult,
                   this, log, ord, result>>

\* The inserts and the return of the map.
Return(t) ==
    /\ pc[t] = "project"
    /\ pc' = [pc EXCEPT ![t] = "idle"]
    /\ outcome' = [outcome EXCEPT ![t] = "ok"]
    /\ metrics' = [metrics EXCEPT ![t] = None]
    /\ result' = IF endless THEN result
                 ELSE [result EXCEPT ![t] =
                         Some([adapter |-> this[t], cursor |-> CursorOf(t), ord |-> ord[t],
                               map |-> Project(family, name(this[t]), metrics[t].val)])]
    /\ ord' = [ord EXCEPT ![t] = 0]
    /\ UNCHANGED <<family, endless, source, builder, cursors, adapters,
                   buildResult, this, log>>

\* get_all on any thread.
Serve ==
    \/ \E t \in Callers : \E a \in 1..Len(adapters) : Call(t, a)
    \/ \E t \in Callers : LockOk(t)
    \/ \E t \in Callers : LockPoisoned(t)
    \/ \E t \in Callers : NextRead(t)
    \/ \E t \in Callers : NextSome(t)
    \/ \E t \in Callers : NextNone(t)
    \/ \E t \in Callers : Return(t)

Next ==
    \/ \E n \in Names : SetName(n)
    \/ SetMonitor
    \/ Build
    \/ Serve

\* Construction, then collection by one thread.
Spec == Init /\ [][Next]_vars

\* --------------------------------------------------- concurrent collection
\* One metrics set, built from a stub monitor, shared by several threads.
ConcInit ==
    /\ family \in Families
    /\ endless = FALSE
    /\ source = StubSource(family)
    /\ \E n \in Names :
          /\ builder = [name |-> Some(n), monitor |-> Some(1)]
          /\ adapters = <<[name |-> n, monitor |-> 1]>>
          /\ buildResult = Some(Ok([name |-> n, monitor |-> 1]))
    /\ cursors = <<NewCursor>>
    /\ log = <<<<>>>>
    /\ ThreadsIdle(Threads)

ConcSpec == ConcInit /\ [][Serve]_vars

\* ------------------------------------------------------------- projection
\* One metrics set over a stub monitor of a single snapshot.
ProjInit ==
    /\ family \in Families
    /\ endless = FALSE
    /\ source \in {<<m>> : m \in Snapshots(family)}
    /\ \E n \in Names :
          /\ builder = [name |-> Some(n), monitor |-> Some(1)]
          /\ adapters = <<[name |-> n, monitor |-> 1]>>
          /\ buildResult = Some(Ok([name |-> n, monitor |-> 1]))
    /\ cursors = <<NewCursor>>
    /\ log = <<<<>>>>
    /\ ThreadsIdle({1})

ProjSpec == ProjInit /\ [][Serve]_vars

\* ------------------------------------------------------------ live monitor
\* One metrics set over a monitor whose intervals() never ends.
LiveInit ==
    /\ family \in Families
    /\ endless = TRUE
    /\ source = StubSource(family)
    /\ \E n \in Names :
          /\ builder = [name |-> Some(n), monitor |-> Some(1)]
          /\ adapters = <<[name |-> n, monitor |-> 1]>>
          /\ buildResult = Some(Ok([name |-> n, monitor |-> 1]))
    /\ cursors = <<NewCursor>>
    /\ log = <<<<>>>>
    /\ ThreadsIdle(Threads)

LiveNext ==
    \/ \E t \in Callers : \E a \in 1..Len(adapters) : Call(t, a)
    \/ \E t \in Callers : LockOk(t)
    \/ \E t \in Callers : NextRead(t)
    \/ \E t \in Callers : NextSome(t)
    \/ \E t \in Callers : Return(t)

\* A thread inside get_all keeps running; nothing obliges it to call again.
Step(t) == LockOk(t) \/ NextRead(t) \/ NextSome(t) \/ Return(t)

LiveSpec == LiveInit /\ [][LiveNext]_vars /\ \A t \in Threads : WF_vars(Step(t))

\* ====================================================================
\* Helpers of the properties below
\* ====================================================================
IsPrefix(p, s) == Len(p) <= Len(s) /\ SubSeq(s, 1, Len(p)) = p

\* Thread t leaves get_all with a map in this step.
Returns(t) == pc[t] = "project" /\ pc'[t] = "idle"

\* Thread t finishes its next() call in this step.
Pulls(t) == pc[t] = "unwrap" /\ pc'[t] # "unwrap"

TaskCounters ==
    {"first_poll_count", "instrumented_count", "dropped_count", "total_poll_count",
     "total_idled_count", "total_scheduled_count", "total_slow_poll_count",
     "total_fast_poll_count"}

TaskDurations == {"mean_poll_duration", "mean_first_poll_delay", "mean_scheduled_duration"}

RuntimeCounters ==
    {"total_polls_count", "total_steal_count", "total_park_count", "num_remote_schedules",
     "total_local_schedule_count", "total_overflow_count", "total_noop_count"}

RuntimeDurations == {"total_busy_duration"}

CounterFields(f) == IF f = "task" THEN TaskCounters ELSE RuntimeCounters

DurationFields(f) == IF f = "task" THEN TaskDurations ELSE RuntimeDurations

\* Two snapshots that agree on every counter, on busy_ratio and on the whole
\* milliseconds of every duration.
SameToTheMillisecond(f, m1, m2) ==
    /\ \A c \in CounterFields(f) : m1[c] = m2[c]
    /\ \A d \in DurationFields(f) :
          \E k \in 0..((m1[d] + m2[d]) \div 1000) :
              /\ 1000 * k <= m1[d] /\ m1[d] < 1000 * (k + 1)
              /\ 1000 * k <= m2[d] /\ m2[d] < 1000 * (k + 1)
    /\ f = "rt" => m1.busy_ratio = m2.busy_ratio

\* --------------------------------------------------------------------
\* C1 as stated: sequential calls return the projections of s1, s2, ...,
\* and two consecutive calls on one adapter that took distinct snapshots
\* never return identical mappings.
C1_DistinctSnapshotsDistinctMaps ==
    [][\A t \in Callers :
          Returns(t) =>
            /\ result'[t].val.map = Project(family, name(this[t]), source[result'[t].val.ord])
            /\ (/\ result[t].some
                /\ result[t].val.adapter = result'[t].val.adapter
                /\ source[result[t].val.ord] # source[result'[t].val.ord])
               => result'[t].val.map # result[t].val.map]_vars

\* C1 as amended: the n-th pull on a cursor takes sn and the call returns
\* its projection; a pull moves the cursor forward by exactly one and
\* nothing moves it back; two consecutive returns of one adapter differ
\* exactly when the two snapshots differ in a counter, in busy_ratio or in
\* the whole milliseconds of a duration.
C1_Sequential ==
    [][/\ \A t \in Callers :
            Returns(t) =>
              /\ result'[t].val.map = Project(family, name(this[t]), source[result'[t].val.ord])
              /\ (result[t].some /\ result[t].val.adapter = result'[t].val.adapter)
                 => (result'[t].val.map = result[t].val.map
                       <=> SameToTheMillisecond(family, source[result[t].val.ord],
                                                source[result'[t].val.ord]))
       /\ \A t \in Callers :
            (Pulls(t) /\ pc'[t] = "project") =>
              LET c == CursorOf(t) IN
              /\ cursors'[c].pos = cursors[c].pos + 1
              /\ ord'[t] = Len(log[c]) + 1
              /\ metrics'[t].val = source[ord'[t]]
              /\ log'[c] = Append(log[c], ord'[t])
       /\ \A c \in 1..Len(cursors) : cursors'[c].pos >= cursors[c].pos]_vars

\* C1 witness: a second call on the same adapter has returned the
\* projection of s2.
C1_Witness ==
    \E t \in Callers :
        /\ pc[t] = "idle" /\ outcome[t] = "ok"
        /\ result[t].some /\ result[t].val.ord = 2
        /\ Len(adapters) = 1

\* --------------------------------------------------------------------
\* C2: with several threads in get_all on one adapter, the snapshots taken
\* from its cursor are s1, s2, ... sN in lock order, each taken once and
\* none skipped, and no two threads hold or have returned the same one.
C2_ConcurrentDistinct ==
    /\ \A c \in 1..Len(cursors) :
          /\ log[c] = [i \in 1..Len(log[c]) |-> i]
          /\ Len(log[c]) = cursors[c].pos
    /\ \A t \in Callers :
          /\ pc[t] = "project" => metrics[t].val = source[ord[t]]
          /\ result[t].some =>
               result[t].val.map = Project(family, name(result[t].val.adapter),
                                           source[result[t].val.ord])
    /\ \A t1, t2 \in Callers :
          t1 # t2 =>
            /\ (pc[t1] = "project" /\ pc[t2] = "project") => ord[t1] # ord[t2]
            /\ (pc[t1] = "project" /\ result[t2].some) => ord[t1] # result[t2].val.ord
            /\ (result[t1].some /\ result[t2].some)
               => result[t1].val.ord # result[t2].val.ord

\* C2 witness: every thread has returned from one call, the threads hold
\* s1..sN between them and the stub has snapshots left.
C2_Witness ==
    /\ \A t \in Callers : pc[t] = "idle" /\ outcome[t] = "ok" /\ result[t].some
    /\ {result[t].val.ord : t \in Callers} = 1..Cardinality(Callers)
    /\ cursors[1].pos = Cardinality(Callers)
    /\ Cardinality(Callers) > 1
    /\ Cardinality(Callers) < Len(source)

\* --------------------------------------------------------------------
\* C3: the call whose next() finds the stub at its end panics and returns
\* no map; every map returned is the projection of an element of the
\* source that no earlier return had.
C3_ExhaustionPanics ==
    [][\A t \in Callers :
          /\ (Pulls(t) /\ cursors[CursorOf(t)].pos = Len(source))
             => /\ pc'[t] = "idle"
                /\ outcome'[t] = "NoneUnwrap"
                /\ result' = result
          /\ Returns(t)
             => /\ result'[t].val.ord \in 1..Len(source)
                /\ result'[t].val.map = Project(family, name(this[t]), source[result'[t].val.ord])
                /\ \A u \in Callers : result[u].some => result[u].val.ord # result'[t].val.ord]_vars

\* C3 witness: a call has ended in the panic of unwrap on None.
C3_Witness ==
    \E t \in Callers :
        /\ pc[t] = "idle" /\ outcome[t] = "NoneUnwrap"
        /\ cursors[CursorOf(t)].pos = Len(source)

\* --------------------------------------------------------------------
\* C4: build() returns Ok exactly when name and monitor are both set; when
\* one is unset it returns UninitializedField and no adapter is added.
C4_BuildValidation ==
    [][Build =>
         LET both == builder.name.some /\ builder.monitor.some IN
         /\ buildResult'.val.ok <=> both
         /\ both => Len(adapters') = Len(adapters) + 1
         /\ ~both => /\ adapters' = adapters
                     /\ buildResult'.val.err = "UninitializedField"
                     /\ buildResult'.val.field = IF builder.name.some THEN "monitor" ELSE "name"]_vars

\* C4 witness: a build() with the name set and the monitor unset failed,
\* and nothing was built.
C4_Witness ==
    /\ buildResult.some /\ ~buildResult.val.ok
    /\ builder.name.some /\ ~builder.monitor.some
    /\ adapters = <<>>

\* --------------------------------------------------------------------
\* C5 as stated: a get_all on one adapter leaves the cursor position of
\* every other adapter unchanged.
C5_CursorNotShared ==
    [][\A t \in Callers :
          Pulls(t) =>
            \A a \in 1..Len(adapters) :
                a # this[t] =>
                  cursors'[adapters[a].monitor].pos = cursors[adapters[a].monitor].pos]_vars

\* --------------------------------------------------------------------
\* C6: the unwrap of None poisons the mutex; once it is poisoned it stays
\* poisoned, its iterator is never advanced again, and every call that
\* reaches lock() panics with PoisonError and returns no map.
C6_PoisonIsFinal ==
    [][/\ \A t \in Callers :
            (Pulls(t) /\ outcome'[t] = "NoneUnwrap") => cursors'[CursorOf(t)].poisoned
       /\ \A c \in 1..Len(cursors) :
            cursors[c].poisoned =>
              /\ cursors'[c].poisoned
              /\ cursors'[c].pos = cursors[c].pos
              /\ log'[c] = log[c]
              /\ \A t \in Callers :
                    (pc[t] = "lock" /\ CursorOf(t) = c /\ pc'[t] # "lock")
                    => /\ pc'[t] = "idle"
                       /\ outcome'[t] = "PoisonError"
                       /\ result' = result]_vars

\* C6 witness: a call made after the poisoning has panicked with
\* PoisonError.
C6_Witness ==
    \E t \in Callers :
        /\ pc[t] = "idle" /\ outcome[t] = "PoisonError"
        /\ cursors[CursorOf(t)].poisoned

\* --------------------------------------------------------------------
\* Every key of every returned map starts with the adapter's name and a dot.
C7_KeysPrefixed ==
    \A t \in Callers :
        result[t].some =>
          \A k \in DOMAIN result[t].val.map :
              IsPrefix(name(result[t].val.adapter) \o <<".">>, k)

\* C7: a successful build() gives the adapter the name the builder holds;
\* no later step changes the name of a built adapter; every key of every
\* returned map starts with the adapter's name and a dot.
C7_NameFixed ==
    [][/\ (Build /\ buildResult'.val.ok)
          => adapters'[Len(adapters')].name = builder.name.val
       /\ \A a \in 1..Len(adapters) : name(a)' = name(a)
       /\ C7_KeysPrefixed']_vars

\* C7 witness: a map was returned by an adapter whose builder has since
\* been given another name.
C7_Witness ==
    \E t \in Callers :
        /\ result[t].some
        /\ builder.name.val # name(result[t].val.adapter)

\* --------------------------------------------------------------------
\* C8: a task map has exactly the 11 keys "<name>.<field>", a runtime map
\* exactly the 9.
TaskKeys ==
    {K_first_poll_count, K_instrumented_count, K_dropped_count, K_total_poll_count,
     K_total_idled_count, K_total_scheduled_count, K_total_slow_poll_count,
     K_total_fast_poll_count, K_mean_poll_duration, K_mean_first_poll_delay,
     K_mean_scheduled_duration}

RuntimeKeys ==
    {K_total_polls_count, K_total_steal_count, K_total_park_count, K_num_remote_schedules,
     K_total_local_schedule_count, K_total_overflow_count, K_total_noop_count,
     K_total_busy_duration, K_busy_ratio}

C8_FieldComplete ==
    \A t \in Callers :
        result[t].some =>
          LET keys == DOMAIN result[t].val.map
              n == name(result[t].val.adapter)
              fields == IF family = "task" THEN TaskKeys ELSE RuntimeKeys
          IN  /\ keys = {n \o <<".">> \o f : f \in fields}
              /\ Cardinality(keys) = IF family = "task" THEN 11 ELSE 9

\* C8 witness: a task map and its 11 keys.
C8_Witness ==
    \E t \in Callers :
        /\ family = "task"
        /\ result[t].some
        /\ Cardinality(DOMAIN result[t].val.map) = 11

\* --------------------------------------------------------------------
\* C9: every duration of d microseconds is reported as the whole number of
\* milliseconds v with 1000 v <= d < 1000 (v + 1): 1500 gives 1, anything
\* under 1000 gives 0.
DurationKey(d) ==
    CASE d = "mean_poll_duration" -> K_mean_poll_duration
      [] d = "mean_first_poll_delay" -> K_mean_first_poll_delay
      [] d = "mean_scheduled_duration" -> K_mean_scheduled_duration
      [] d = "total_busy_duration" -> K_total_busy_duration

C9_MillisTruncated ==
    \A t \in Callers :
        result[t].some =>
          \A d \in DurationFields(family) :
              LET v == result[t].val.map[name(result[t].val.adapter) \o <<".">> \o DurationKey(d)]
                  us == source[result[t].val.ord][d]
              IN  /\ 1000 * v <= us /\ us < 1000 * (v + 1)
                  /\ us = 1500 => v = 1
                  /\ us < 1000 => v = 0

\* C9 witness: a mean poll duration of 1500 microseconds reported as 1.
C9_Witness ==
    \E t \in Callers :
        /\ family = "task"
        /\ result[t].some
        /\ source[1].mean_poll_duration = 1500
        /\ result[t].val.map[name(1) \o <<".">> \o K_mean_poll_duration] = 1

\* --------------------------------------------------------------------
\* The threads holding the guard of cursor c.
Holders(c) == {t \in Callers : pc[t] \in {"next", "unwrap"} /\ CursorOf(t) = c}

\* At most one thread holds the guard of a cursor, and its mutex is locked
\* exactly while one does.
C10_LockDiscipline ==
    \A c \in 1..Len(cursors) :
        /\ Cardinality(Holders(c)) <= 1
        /\ cursors[c].locked <=> Holders(c) # {}

\* Every call of get_all that has started ends.
EveryCallReturns == \A t \in Threads : (pc[t] # "idle") ~> (pc[t] = "idle")

\* C10 as stated: under weak fairness alone every call that starts
\* returns.
C10_WeakFairnessSuffices == EveryCallReturns

\* C10 as amended: at most one thread holds the guard, the mutex is locked
\* exactly while a thread is between lock() and the end of next(), a call
\* that holds the guard always returns, a waiting call is never blocked
\* with the mutex idle for good; and every call returns provided lock() is
\* strongly fair, that is a thread that finds the mutex free again and
\* again eventually takes it.
C10_LockAndProgress ==
    /\ []C10_LockDiscipline
    /\ \A t \in Threads : (pc[t] \in {"next", "unwrap", "project"}) ~> (pc[t] = "idle")
    /\ (\E t \in Threads : pc[t] = "lock") ~> (\E t \in Threads : pc[t] = "next")
    /\ (\A t \in Threads : SF_vars(LockOk(t))) => EveryCallReturns

\* C10 witness: one thread waits at lock() while another holds the guard.
C10_Witness ==
    \E t1, t2 \in Callers :
        /\ pc[t1] = "lock" /\ pc[t2] = "unwrap"
        /\ CursorOf(t1) = CursorOf(t2)
        /\ cursors[CursorOf(t1)].locked
====
